---- MODULE Spec2Model ----
(***************************************************************************)
(* Backtesting engine of the trading platform: BacktestEngine (server/src/ *)
(* backtest/engine.ts), the strategies it drives (strategies/base.ts,      *)
(* strategies/sma-crossover.ts, strategies/index.ts) and the               *)
(* POST /api/backtest handler (routes/backtest.ts).                        *)
(*                                                                         *)
(* Numbers.  Prices, capital and commission are integers, so every         *)
(* quantity, cost and equity value of a run is an integer.  The quotients  *)
(* the code computes (SMA values, confidences, drawdowns, percentages) are *)
(* kept as exact fractions [n, d] in lowest terms with d >= 0; d = 0       *)
(* stands for the IEEE results of a division by zero: [0,0] is NaN,        *)
(* [1,0] is +Infinity and [-1,0] is -Infinity.                             *)
(***************************************************************************)
EXTENDS Integers, Sequences, FiniteSets, TLC

\* ---------------------------------------------------------------- bounds
\* Longest bar sequence handed to run.
MaxBars == 3

\* Input values the actions draw from.
Closes == {2, 3}
InitialCapitals == {-5, 0, 1, 8}
Commissions == {0, 1}

\* routes/backtest.ts: `initialCapital = 10000` when the body omits it.
DefaultInitialCapital == 10000

\* ------------------------------------------------------------- fractions
Abs(x) == IF x < 0 THEN -x ELSE x

Sign(x) == IF x < 0 THEN -1 ELSE IF x > 0 THEN 1 ELSE 0

RECURSIVE GCD(_, _)
GCD(a, b) == IF b = 0 THEN a ELSE GCD(b, a % b)

\* The value n/d of a JavaScript division of two numbers.
Frac(n, d) ==
    IF d = 0
    THEN [n |-> Sign(n), d |-> 0]
    ELSE LET g == GCD(Abs(n), Abs(d))
             s == Sign(d)
         IN  [n |-> (s * n) \div g, d |-> (s * d) \div g]

FInt(k) == [n |-> k, d |-> 1]

NaN == [n |-> 0, d |-> 0]

IsNaN(x) == x.n = 0 /\ x.d = 0

IsFinite(x) == x.d > 0

\* a < b as JavaScript compares numbers: false when either side is NaN.
FLess(a, b) ==
    /\ ~IsNaN(a)
    /\ ~IsNaN(b)
    /\ IF a.d = 0 /\ b.d = 0 THEN a.n < b.n ELSE a.n * b.d < b.n * a.d

FLessEq(a, b) == ~IsNaN(a) /\ ~IsNaN(b) /\ ~FLess(b, a)

FSub(a, b) ==
    IF IsNaN(a) \/ IsNaN(b) THEN NaN
    ELSE IF a.d = 0 /\ b.d = 0 THEN (IF a.n = b.n THEN NaN ELSE a)
    ELSE IF a.d = 0 THEN a
    ELSE IF b.d = 0 THEN [n |-> -b.n, d |-> 0]
    ELSE Frac(a.n * b.d - b.n * a.d, a.d * b.d)

FAdd(a, b) == FSub(a, [n |-> -b.n, d |-> b.d])

FMul(a, b) ==
    IF IsNaN(a) \/ IsNaN(b) THEN NaN
    ELSE IF a.d = 0 \/ b.d = 0 THEN [n |-> Sign(a.n) * Sign(b.n), d |-> 0]
    ELSE Frac(a.n * b.n, a.d * b.d)

FDiv(a, b) ==
    IF IsNaN(a) \/ IsNaN(b) THEN NaN
    ELSE IF a.d = 0 /\ b.d = 0 THEN NaN
    ELSE IF b.d = 0 THEN FInt(0)
    ELSE IF a.d = 0 THEN [n |-> a.n * (IF b.n < 0 THEN -1 ELSE 1), d |-> 0]
    ELSE Frac(a.n * b.d, a.d * b.n)

\* Math.max(a, b) and Math.min(a, b): NaN when either argument is NaN.
MathMax(a, b) ==
    IF IsNaN(a) \/ IsNaN(b) THEN NaN ELSE IF FLess(a, b) THEN b ELSE a

MathMin(a, b) ==
    IF IsNaN(a) \/ IsNaN(b) THEN NaN ELSE IF FLess(b, a) THEN b ELSE a

\* ------------------------------------------------------------------ data
\* Bar: timestamp t and close c (open, high, low and volume are not read by
\* the engine or by the SMA strategy).  Index i of the code is bars[i + 1].
BarSeqs(n) ==
    {[k \in 1..n |-> [t |-> k, c |-> cs[k]]] : cs \in [1..n -> Closes]}

AllBarSeqs == UNION {BarSeqs(n) : n \in 0..MaxBars}

\* Closes and capital on the scale of real prices, for runs whose figures are
\* compared with expected amounts.
ScenarioCloses == {100, 120}

ScenarioCapitals == {1000}

ScenarioBarSeqs ==
    UNION {{[k \in 1..n |-> [t |-> k, c |-> cs[k]]] : cs \in [1..n -> ScenarioCloses]}
           : n \in 0..MaxBars}

\* Bar sequences one bar longer, for runs of the indicator strategies that
\* go on after the warm-up.
LongBarSeqs == UNION {BarSeqs(n) : n \in 0..(MaxBars + 1)}

\* No commission or a commission above the price of a share, and a capital
\* that buys a share at it.
CostlyCommissions == {0, 4}

CostlyCapitals == {8}

BarAt(bars, i) == bars[i + 1]

\* StrategySignal: action and confidence (timestamp and reason are not read
\* by the engine).
Signal(action, confidence) == [action |-> action, confidence |-> confidence]

Hold == Signal("hold", FInt(0))

\* The answers a stub strategy may give at one index.
StubSignals ==
    {Hold,
     Signal("buy", Frac(1, 2)), Signal("buy", FInt(1)),
     Signal("sell", Frac(1, 2)), Signal("sell", FInt(1))}

NoParameters == [shortPeriod |-> 0, longPeriod |-> 0]

\* Parameters of `new SMACrossoverStrategy()`.
SMADefaults == [shortPeriod |-> 10, longPeriod |-> 30]

\* Parameter values a caller constructs or overrides the SMA strategy with.
SMAParameterChoices ==
    {[shortPeriod |-> 1, longPeriod |-> 2], [shortPeriod |-> 2, longPeriod |-> 3]}

\* Parameters of `new RSIStrategy()`.
RSIDefaults == [period |-> 14, oversoldLevel |-> 30, overboughtLevel |-> 70]

\* Parameter values a caller constructs the RSI strategy with.
RSIParameterChoices ==
    {[period |-> 1, oversoldLevel |-> 30, overboughtLevel |-> 70],
     [period |-> 2, oversoldLevel |-> 30, overboughtLevel |-> 70]}

\* A strategy instance: the SMA crossover or the RSI strategy with its
\* parameters, or a stub, an arbitrary deterministic strategy.  A stub's decision function is its
\* plan, one signal per index; the plan holds the indices the stub has been
\* asked about so far, and the stub picks its answer for an index when it is
\* first asked about it.
StubStrategy ==
    [kind |-> "stub", name |-> "Stub", parameters |-> NoParameters, plan |-> <<>>]

SMAStrategy(params) ==
    [kind |-> "sma", name |-> "SMA Crossover", parameters |-> params, plan |-> <<>>]

RSIStrategy(params) ==
    [kind |-> "rsi", name |-> "RSI Strategy", parameters |-> params, plan |-> <<>>]

\* -------------------------------------------------------------- strategies
RECURSIVE SumCloses(_, _, _)
SumCloses(bars, from, to) ==
    IF from > to THEN 0 ELSE BarAt(bars, from).c + SumCloses(bars, from + 1, to)

\* Mutant of calculateSMA: the window reaches one bar past endIndex when
\* there is such a bar.
calculateSMAPeeking(bars, period, endIndex) ==
    LET last == IF endIndex + 1 < Len(bars) THEN endIndex + 1 ELSE endIndex
    IN  IF last < period - 1
        THEN FInt(0)
        ELSE Frac(SumCloses(bars, last - period + 1, last), period)

\* Mutant of calculateSMA: the average is reported one bar late.
calculateSMALate(bars, period, endIndex) ==
    IF endIndex < period
    THEN FInt(0)
    ELSE Frac(SumCloses(bars, endIndex - period + 1, endIndex), period)

\* BaseStrategy.calculateSMA
calculateSMA(bars, period, endIndex) ==
    IF endIndex < period - 1
    THEN FInt(0)
    ELSE Frac(SumCloses(bars, endIndex - period + 1, endIndex), period)

\* Mutant of SMAInsufficientData: the guard tests the short period.
SMAInsufficientDataShort(parameters, currentIndex) ==
    currentIndex < parameters.shortPeriod

\* The warm-up guard of SMACrossoverStrategy.analyze.
SMAInsufficientData(parameters, currentIndex) ==
    currentIndex < parameters.longPeriod

\* SMACrossoverStrategy.analyze
SMAAnalyze(parameters, bars, currentIndex) ==
    LET shortPeriod == parameters.shortPeriod
        longPeriod == parameters.longPeriod
        currentShortSMA == calculateSMA(bars, shortPeriod, currentIndex)
        currentLongSMA == calculateSMA(bars, longPeriod, currentIndex)
        previousShortSMA == calculateSMA(bars, shortPeriod, currentIndex - 1)
        previousLongSMA == calculateSMA(bars, longPeriod, currentIndex - 1)
    IN  IF SMAInsufficientData(parameters, currentIndex)
        THEN Hold
        ELSE IF FLessEq(previousShortSMA, previousLongSMA)
                /\ FLess(currentLongSMA, currentShortSMA)
        THEN Signal("buy",
                 MathMin(FMul(FDiv(FSub(currentShortSMA, currentLongSMA),
                                   currentLongSMA), FInt(100)), FInt(1)))
        ELSE IF FLessEq(previousLongSMA, previousShortSMA)
                /\ FLess(currentShortSMA, currentLongSMA)
        THEN Signal("sell",
                 MathMin(FMul(FDiv(FSub(currentLongSMA, currentShortSMA),
                                   currentLongSMA), FInt(100)), FInt(1)))
        ELSE Hold

\* gains and losses of BaseStrategy.calculateRSI over the closes from..to.
RECURSIVE SumGains(_, _, _)
SumGains(bars, from, to) ==
    IF from > to THEN 0
    ELSE LET change == BarAt(bars, from).c - BarAt(bars, from - 1).c
         IN  (IF change > 0 THEN change ELSE 0) + SumGains(bars, from + 1, to)

RECURSIVE SumLosses(_, _, _)
SumLosses(bars, from, to) ==
    IF from > to THEN 0
    ELSE LET change == BarAt(bars, from).c - BarAt(bars, from - 1).c
         IN  (IF change > 0 THEN 0 ELSE Abs(change))
                 + SumLosses(bars, from + 1, to)

\* Mutant of calculateRSI: a window without a losing change is reported as
\* neutral.
calculateRSINeutral(bars, period, endIndex) ==
    IF endIndex < period
    THEN FInt(50)
    ELSE LET avgGain == Frac(SumGains(bars, endIndex - period + 1, endIndex), period)
             avgLoss == Frac(SumLosses(bars, endIndex - period + 1, endIndex), period)
             rs == FDiv(avgGain, avgLoss)
         IN  IF avgLoss = FInt(0)
             THEN FInt(50)
             ELSE FSub(FInt(100), FDiv(FInt(100), FAdd(FInt(1), rs)))

\* BaseStrategy.calculateRSI
calculateRSI(bars, period, endIndex) ==
    IF endIndex < period
    THEN FInt(50)
    ELSE LET avgGain == Frac(SumGains(bars, endIndex - period + 1, endIndex), period)
             avgLoss == Frac(SumLosses(bars, endIndex - period + 1, endIndex), period)
             rs == FDiv(avgGain, avgLoss)
         IN  IF avgLoss = FInt(0)
             THEN FInt(100)
             ELSE FSub(FInt(100), FDiv(FInt(100), FAdd(FInt(1), rs)))

\* Mutant of RSIInsufficientData: the guard is one index short.
RSIInsufficientDataShort(parameters, currentIndex) ==
    currentIndex < parameters.period

\* The warm-up guard of RSIStrategy.analyze.
RSIInsufficientData(parameters, currentIndex) ==
    currentIndex < parameters.period + 1

\* RSIStrategy.analyze
RSIAnalyze(parameters, bars, currentIndex) ==
    LET period == parameters.period
        oversoldLevel == FInt(parameters.oversoldLevel)
        overboughtLevel == FInt(parameters.overboughtLevel)
        currentRSI == calculateRSI(bars, period, currentIndex)
        previousRSI == calculateRSI(bars, period, currentIndex - 1)
    IN  IF RSIInsufficientData(parameters, currentIndex)
        THEN Hold
        ELSE IF FLessEq(previousRSI, oversoldLevel) /\ FLess(oversoldLevel, currentRSI)
        THEN Signal("buy", FDiv(FSub(oversoldLevel, previousRSI), oversoldLevel))
        ELSE IF FLessEq(overboughtLevel, previousRSI)
                /\ FLess(currentRSI, overboughtLevel)
        THEN Signal("sell", FDiv(FSub(previousRSI, overboughtLevel),
                                 FSub(FInt(100), overboughtLevel)))
        ELSE IF FLess(currentRSI, oversoldLevel)
        THEN Signal("buy", FDiv(FSub(oversoldLevel, currentRSI), oversoldLevel))
        ELSE IF FLess(overboughtLevel, currentRSI)
        THEN Signal("sell", FDiv(FSub(currentRSI, overboughtLevel),
                                 FSub(FInt(100), overboughtLevel)))
        ELSE Hold

\* strategy.analyze(bars, currentIndex), dispatched on the instance: the
\* signals the call can return.
Analyze(strategy, bars, currentIndex) ==
    IF strategy.kind = "sma"
    THEN {SMAAnalyze(strategy.parameters, bars, currentIndex)}
    ELSE IF strategy.kind = "rsi"
    THEN {RSIAnalyze(strategy.parameters, bars, currentIndex)}
    ELSE IF currentIndex < Len(strategy.plan)
    THEN {strategy.plan[currentIndex + 1]}
    ELSE StubSignals

\* The instance after it answered `sig` at currentIndex.
Answered(strategy, currentIndex, sig) ==
    IF strategy.kind = "stub" /\ currentIndex >= Len(strategy.plan)
    THEN [strategy EXCEPT !.plan = Append(@, sig)]
    ELSE strategy

\* ------------------------------------------------------------------ state
VARIABLES
    pc,           \* position of the caller: idle, awaitBars, constructed, loop,
                  \* done, threw, responded
    origin,       \* who drives the engine: "direct" caller or the "route"
    instances,    \* strategy objects: the registry's shared "sma-crossover"
                  \* instance and the direct caller's "own" instance
    request,      \* the body of the POST being handled
    response,     \* the HTTP response sent, or NoResponse
    config,       \* BacktestEngine.config
    bars,         \* the argument of run
    capital,      \* BacktestEngine.capital
    position,     \* BacktestEngine.position
    trades,       \* BacktestEngine.trades
    equityCurve,  \* BacktestEngine.equityCurve
    i,            \* loop index of run
    signal,       \* local of run: the signal of the latest analyze call
    peakEquity,   \* local of run
    maxDrawdown,  \* local of run
    callLog,      \* calls of the current run, in order: on the strategy, the
                  \* equity curve and the order methods
    result,       \* the BacktestResult run returned, or NoResult
    error,        \* the message of the Error run threw, or NoError
    runNo,        \* 1 for the first run, 2 for the repeated one
    firstResult,  \* the result of run 1 once run 2 has started
    strategyArgs  \* the strategy the direct caller constructed for run 1

vars ==
    <<pc, origin, instances, request, response, config, bars, capital, position,
      trades, equityCurve, i, signal, peakEquity, maxDrawdown, callLog, result, error,
      runNo, firstResult, strategyArgs>>

engineVars == <<capital, position, trades, equityCurve>>

NoResult == [none |-> TRUE]
NoError == ""
Response(status, message) == [status |-> status, error |-> message]
NoResponse == Response(0, "")
NoRequest == [none |-> TRUE]
NoConfig == [none |-> TRUE]
NoStrategy == [kind |-> "none", name |-> "", parameters |-> NoParameters, plan |-> <<>>]
\* An optional field of a request body: given with a value, or omitted.
Given(v) == [given |-> TRUE, value |-> v]
OmittedNumber == [given |-> FALSE, value |-> 0]
OmittedObject == [given |-> FALSE, value |-> [k \in {} |-> 0]]

\* strategies/index.ts: the registry's instances, constructed once at load.
RegistryIds == {"sma-crossover", "rsi"}

\* The registry's instances as constructed at load.
RegistryDefault(id) ==
    IF id = "sma-crossover" THEN SMAStrategy(SMADefaults) ELSE RSIStrategy(RSIDefaults)

\* ----------------------------------------------------------------- engine
\* The confidence a signal must exceed to be executed.
ConfidenceThreshold == Frac(1, 2)

Engine(c, p, t) == [capital |-> c, position |-> p, trades |-> t]

\* Mutant of executeBuy: the order is booked even when no whole share is
\* affordable.
executeBuyUnguarded(cfg, eng, bar, reason) ==
    LET commission == cfg.commission
        price == bar.c
        quantity == (eng.capital - commission) \div price
        totalCost == quantity * price + commission
    IN  Engine(eng.capital - totalCost,
               eng.position + quantity,
               Append(eng.trades,
                      [timestamp |-> bar.t, action |-> "buy",
                       symbol |-> cfg.symbol, quantity |-> quantity,
                       price |-> price, value |-> totalCost,
                       reason |-> reason]))

\* Mutant of executeBuy: the quantity is sized on the whole cash, the
\* commission is not set aside.
executeBuyWholeCash(cfg, eng, bar, reason) ==
    LET commission == cfg.commission
        price == bar.c
        quantity == eng.capital \div price
        totalCost == quantity * price + commission
    IN  IF quantity <= 0
        THEN eng
        ELSE Engine(eng.capital - totalCost,
                    eng.position + quantity,
                    Append(eng.trades,
                           [timestamp |-> bar.t, action |-> "buy",
                            symbol |-> cfg.symbol, quantity |-> quantity,
                            price |-> price, value |-> totalCost,
                            reason |-> reason]))

\* Mutant of executeBuy: an order that affords no share is filled with one.
executeBuyAtLeastOne(cfg, eng, bar, reason) ==
    LET commission == cfg.commission
        price == bar.c
        affordable == (eng.capital - commission) \div price
        quantity == IF affordable <= 0 THEN 1 ELSE affordable
        totalCost == quantity * price + commission
    IN  Engine(eng.capital - totalCost,
               eng.position + quantity,
               Append(eng.trades,
                      [timestamp |-> bar.t, action |-> "buy",
                       symbol |-> cfg.symbol, quantity |-> quantity,
                       price |-> price, value |-> totalCost,
                       reason |-> reason]))

\* Mutant of executeBuy: the commission is logged in the trade's value but
\* not debited from cash.
executeBuyCommissionKept(cfg, eng, bar, reason) ==
    LET commission == cfg.commission
        price == bar.c
        quantity == (eng.capital - commission) \div price
        totalCost == quantity * price + commission
    IN  IF quantity <= 0
        THEN eng
        ELSE Engine(eng.capital - quantity * price,
                    eng.position + quantity,
                    Append(eng.trades,
                           [timestamp |-> bar.t, action |-> "buy",
                            symbol |-> cfg.symbol, quantity |-> quantity,
                            price |-> price, value |-> totalCost,
                            reason |-> reason]))

\* BacktestEngine.executeBuy
executeBuy(cfg, eng, bar, reason) ==
    LET commission == cfg.commission
        price == bar.c
        quantity == (eng.capital - commission) \div price
        totalCost == quantity * price + commission
    IN  IF quantity <= 0
        THEN eng
        ELSE Engine(eng.capital - totalCost,
                    eng.position + quantity,
                    Append(eng.trades,
                           [timestamp |-> bar.t, action |-> "buy",
                            symbol |-> cfg.symbol, quantity |-> quantity,
                            price |-> price, value |-> totalCost,
                            reason |-> reason]))

\* Mutant of executeSell: the proceeds are credited and logged without the
\* commission taken off.
executeSellGross(cfg, eng, bar, reason) ==
    LET price == bar.c
        quantity == eng.position
        totalValue == quantity * price
    IN  IF eng.position <= 0
        THEN eng
        ELSE Engine(eng.capital + totalValue,
                    0,
                    Append(eng.trades,
                           [timestamp |-> bar.t, action |-> "sell",
                            symbol |-> cfg.symbol, quantity |-> quantity,
                            price |-> price, value |-> totalValue,
                            reason |-> reason]))

\* BacktestEngine.executeSell
executeSell(cfg, eng, bar, reason) ==
    LET commission == cfg.commission
        price == bar.c
        quantity == eng.position
        totalValue == quantity * price - commission
    IN  IF eng.position <= 0
        THEN eng
        ELSE Engine(eng.capital + totalValue,
                    0,
                    Append(eng.trades,
                           [timestamp |-> bar.t, action |-> "sell",
                            symbol |-> cfg.symbol, quantity |-> quantity,
                            price |-> price, value |-> totalValue,
                            reason |-> reason]))

\* Mutant of TradePolicy: confidence >= 0.5 instead of > 0.5.
TradePolicyInclusive(sig, pos) ==
    IF sig.action = "buy" /\ pos = 0
       /\ FLessEq(ConfidenceThreshold, sig.confidence)
    THEN "buy"
    ELSE IF sig.action = "sell" /\ pos > 0
            /\ FLessEq(ConfidenceThreshold, sig.confidence)
    THEN "sell"
    ELSE "none"

\* Mutant of TradePolicy: a buy does not require a flat position.
TradePolicyPyramiding(sig, pos) ==
    IF sig.action = "buy" /\ FLess(ConfidenceThreshold, sig.confidence)
    THEN "buy"
    ELSE IF sig.action = "sell" /\ pos > 0
            /\ FLess(ConfidenceThreshold, sig.confidence)
    THEN "sell"
    ELSE "none"

\* The trade policy of the loop body: which execution, if any, the signal
\* triggers at the current position.
TradePolicy(sig, pos) ==
    IF sig.action = "buy" /\ pos = 0
       /\ FLess(ConfidenceThreshold, sig.confidence)
    THEN "buy"
    ELSE IF sig.action = "sell" /\ pos > 0
            /\ FLess(ConfidenceThreshold, sig.confidence)
    THEN "sell"
    ELSE "none"

\* `Execute trade based on signal` of the loop body.
ExecuteSignal(cfg, eng, bar, sig) ==
    LET what == TradePolicy(sig, eng.position)
    IN  IF what = "buy" THEN executeBuy(cfg, eng, bar, "Strategy signal")
        ELSE IF what = "sell" THEN executeSell(cfg, eng, bar, "Strategy signal")
        ELSE eng

\* Mutant of CloseRemaining: the close-out is booked as an ordinary sell.
CloseRemainingUnmarked(cfg, eng, bs) ==
    IF eng.position > 0
    THEN executeSell(cfg, eng, bs[Len(bs)], "Strategy signal")
    ELSE eng

\* Mutant of CloseRemaining: the open position is left as it is.
CloseRemainingSkipped(cfg, eng, bs) == eng

\* `Close any remaining position at the end` of run.
CloseRemaining(cfg, eng, bs) ==
    IF eng.position > 0
    THEN executeSell(cfg, eng, bs[Len(bs)], "End of backtest")
    ELSE eng

\* The equity point run records for a bar, from the running peak.
NewPeak(peak, currentEquity) ==
    IF currentEquity > peak THEN currentEquity ELSE peak

EquityPoint(bar, currentEquity, peak) ==
    [timestamp |-> bar.t,
     equity |-> currentEquity,
     drawdown |-> Frac(peak - currentEquity, peak)]

\* Mutant of RecordEquity: a point repeating the previous equity is dropped.
RecordEquityDeduplicated(curve, point) ==
    IF Len(curve) > 0 /\ curve[Len(curve)].equity = point.equity
    THEN curve
    ELSE Append(curve, point)

\* What the loop body appends to equityCurve.
RecordEquity(curve, point) == Append(curve, point)

\* -------------------------------------------------------------- reporting
\* returns[k] of generateReport: 0 for the first point, else the relative
\* change of equity from the previous point.
Returns(curve) ==
    [k \in 1..Len(curve) |->
        IF k = 1 THEN FInt(0)
        ELSE Frac(curve[k].equity - curve[k - 1].equity, curve[k - 1].equity)]

\* stdDev > 0 in generateReport.  returns[0] is 0, so the deviations from the
\* mean are all zero exactly when every return is 0; a NaN or infinite return
\* makes the mean and stdDev NaN, and NaN > 0 is false.
StdDevPositive(returns) ==
    /\ \A k \in 1..Len(returns) : IsFinite(returns[k])
    /\ \E k \in 1..Len(returns) : returns[k].n # 0

\* sharpe_ratio: 0 when stdDev is not positive, else the value
\* (avgReturn / stdDev) * sqrt(252), an irrational number that is a function
\* of the returns alone and is kept as that term.
SharpeRatio(returns) ==
    IF StdDevPositive(returns)
    THEN [zero |-> FALSE, of |-> returns]
    ELSE [zero |-> TRUE, of |-> <<>>]

\* Math.max(...values): -Infinity for no value, NaN if any value is NaN.
RECURSIVE MathMaxOf(_, _)
MathMaxOf(values, k) ==
    IF k = 0 THEN [n |-> -1, d |-> 0]
    ELSE MathMax(MathMaxOf(values, k - 1), values[k])

\* `Find max drawdown` of generateReport.
ReportMaxDrawdown(curve) ==
    MathMaxOf([k \in 1..Len(curve) |-> curve[k].drawdown], Len(curve))

IsBuy(t) == t.action = "buy"
IsSell(t) == t.action = "sell"

\* Mutant of PairProfits: a break-even pair is left out of the statistics.
PairProfitsDecided(ts) ==
    [k \in {j \in 1..(Len(ts) \div 2) : ts[2 * j].value # ts[2 * j - 1].value} |->
        ts[2 * k].value - ts[2 * k - 1].value]

\* Mutant of PairProfits: every sell is compared with the first buy.
PairProfitsFirstBuy(ts) ==
    [k \in 1..(Len(ts) \div 2) |-> ts[2 * k].value - ts[1].value]

\* Mutant of PairProfits: the profit of a pair is taken buy minus sell.
PairProfitsNegated(ts) ==
    [k \in 1..(Len(ts) \div 2) |-> ts[2 * k - 1].value - ts[2 * k].value]

\* The win/lose loop of generateReport over the i-th buy and i-th sell.
PairProfits(ts) ==
    LET buyTrades == SelectSeq(ts, IsBuy)
        sellTrades == SelectSeq(ts, IsSell)
    IN  [k \in {j \in 1..Len(sellTrades) : j <= Len(buyTrades)} |->
            sellTrades[k].value - buyTrades[k].value]

\* finalEquity of generateReport.
FinalEquity(eng) ==
    LET lastPrice == IF Len(eng.trades) > 0
                     THEN eng.trades[Len(eng.trades)].price
                     ELSE 0
    IN  eng.capital + eng.position * lastPrice

\* BacktestEngine.generateReport
generateReport(cfg, strategy, eng, curve) ==
    LET finalEquity == FinalEquity(eng)
        totalReturn == finalEquity - cfg.initialCapital
        profits == PairProfits(eng.trades)
        winningTrades == Cardinality({k \in DOMAIN profits : profits[k] > 0})
        losingTrades == Cardinality({k \in DOMAIN profits : ~(profits[k] > 0)})
        totalTrades == winningTrades + losingTrades
    IN  [strategy_id |-> strategy.name,
         symbol |-> cfg.symbol,
         start_date |-> cfg.startDate,
         end_date |-> cfg.endDate,
         initial_capital |-> cfg.initialCapital,
         final_capital |-> finalEquity,
         total_return |-> totalReturn,
         total_return_pct |->
             FMul(Frac(totalReturn, cfg.initialCapital), FInt(100)),
         sharpe_ratio |-> SharpeRatio(Returns(curve)),
         max_drawdown |-> ReportMaxDrawdown(curve),
         total_trades |-> Len(eng.trades),
         winning_trades |-> winningTrades,
         losing_trades |-> losingTrades,
         win_rate |->
             IF totalTrades > 0
             THEN FMul(Frac(winningTrades, totalTrades), FInt(100))
             ELSE FInt(0),
         trades |-> eng.trades,
         equity_curve |-> curve]

\* ---------------------------------------------------------------- actions
Init ==
    /\ pc = "idle"
    /\ origin = "none"
    /\ instances = [id \in RegistryIds \cup {"own"} |->
                       IF id \in RegistryIds THEN RegistryDefault(id) ELSE NoStrategy]
    /\ request = NoRequest
    /\ response = NoResponse
    /\ config = NoConfig
    /\ bars = <<>>
    /\ capital = 0
    /\ position = 0
    /\ trades = <<>>
    /\ equityCurve = <<>>
    /\ i = 0
    /\ signal = Hold
    /\ peakEquity = 0
    /\ maxDrawdown = FInt(0)
    /\ callLog = <<>>
    /\ result = NoResult
    /\ error = NoError
    /\ runNo = 0
    /\ firstResult = NoResult
    /\ strategyArgs = NoStrategy

Config(symbol, startDate, endDate, initialCapital, strategyRef, commission) ==
    [symbol |-> symbol, startDate |-> startDate, endDate |-> endDate,
     initialCapital |-> initialCapital, strategy |-> strategyRef,
     commission |-> commission]

\* Mutant of NewEngine: the trade log and equity curve are shared by all
\* engines instead of being fields initialised per instance.
NewEngineSharedLogs(cfg) ==
    [capital |-> cfg.initialCapital, position |-> 0, trades |-> trades,
     equityCurve |-> equityCurve]

\* BacktestEngine's field initialisers and constructor.
NewEngine(cfg) ==
    [capital |-> cfg.initialCapital, position |-> 0, trades |-> <<>>,
     equityCurve |-> <<>>]

\* initialize?() is defined by BaseStrategy; a stub defines none.
HasInitialize(strategy) == strategy.kind \in {"sma", "rsi"}

Call(op, index) == [op |-> op, index |-> index]

\* Mutant of RunPrologue: initialize is called before the empty-input check.
RunPrologueInitializeFirst(strategy, bs) ==
    [threw |-> Len(bs) = 0,
     calls |-> IF HasInitialize(strategy)
               THEN <<Call("initialize", -1)>>
               ELSE <<>>]

\* The head of run: the empty-input check, then the optional initialize.
RunPrologue(strategy, bs) ==
    IF Len(bs) = 0
    THEN [threw |-> TRUE, calls |-> <<>>]
    ELSE [threw |-> FALSE,
          calls |-> IF HasInitialize(strategy)
                    THEN <<Call("initialize", -1)>>
                    ELSE <<>>]

\* The locals of run before the loop.
EnterLoop(cfg, calls) ==
    /\ i' = 0
    /\ signal' = Hold
    /\ peakEquity' = cfg.initialCapital
    /\ maxDrawdown' = FInt(0)
    /\ callLog' = calls

\* `new BacktestEngine(config)` by a direct caller, with a strategy instance
\* of its own.
Construct(strategy, initialCapital, commission) ==
    /\ pc = "idle"
    /\ LET cfg == Config("AAPL", "2024-01-01", "2024-12-31", initialCapital,
                         "own", commission)
           eng == NewEngine(cfg)
       IN  /\ config' = cfg
           /\ capital' = eng.capital
           /\ position' = eng.position
           /\ trades' = eng.trades
           /\ equityCurve' = eng.equityCurve
    /\ instances' = [instances EXCEPT !["own"] = strategy]
    /\ strategyArgs' = strategy
    /\ origin' = "direct"
    /\ pc' = "constructed"
    /\ UNCHANGED <<request, response, bars, i, signal, peakEquity, maxDrawdown, callLog,
                   result, error, runNo, firstResult>>

\* run(bars) called by the direct caller: throws on empty input, else enters
\* the loop.
RunCall(bs) ==
    /\ pc = "constructed"
    /\ bars' = bs
    /\ LET pro == RunPrologue(instances[config.strategy], bs)
       IN  IF pro.threw
           THEN /\ error' = "No bars provided for backtest"
                /\ pc' = "threw"
                /\ callLog' = pro.calls
                /\ UNCHANGED <<i, signal, peakEquity, maxDrawdown, runNo>>
           ELSE /\ EnterLoop(config, pro.calls)
                /\ runNo' = 1
                /\ pc' = "loop"
                /\ UNCHANGED error
    /\ UNCHANGED <<origin, instances, request, response, config, engineVars,
                   result, firstResult, strategyArgs>>

\* Mutant of LoopCalls: the trade is executed before the equity point is
\* pushed.
LoopCallsTradeFirst(index, what) ==
    <<Call("analyze", index)>>
        \o (IF what = "buy" THEN <<Call("executeBuy", index)>>
            ELSE IF what = "sell" THEN <<Call("executeSell", index)>>
            ELSE <<>>)
        \o <<Call("equityCurve.push", index)>>

\* The calls of one loop iteration, in the order of the loop body: analyze,
\* the push of the equity point, then the trade the policy decides on.
LoopCalls(index, what) ==
    <<Call("analyze", index), Call("equityCurve.push", index)>>
        \o (IF what = "buy" THEN <<Call("executeBuy", index)>>
            ELSE IF what = "sell" THEN <<Call("executeSell", index)>>
            ELSE <<>>)

\* A result returned by this engine holds the engine's own trades and
\* equityCurve arrays (generateReport stores the references): what the holder
\* of such a result sees once the arrays have these contents.
SharingArrays(returned, ts, curve) ==
    IF returned = NoResult
    THEN returned
    ELSE [returned EXCEPT !.trades = ts, !.equity_curve = curve]

\* One iteration of the loop of run.
LoopIteration ==
    /\ pc = "loop"
    /\ i < Len(bars)
    /\ \E sig \in Analyze(instances[config.strategy], bars, i) :
        LET bar == BarAt(bars, i)
            currentEquity == capital + position * bar.c
            peak == NewPeak(peakEquity, currentEquity)
            point == EquityPoint(bar, currentEquity, peak)
            eng == ExecuteSignal(config, Engine(capital, position, trades),
                                 bar, sig)
        IN  /\ signal' = sig
            /\ instances' = [instances EXCEPT ![config.strategy] =
                                 Answered(@, i, sig)]
            /\ callLog' = callLog \o LoopCalls(i, TradePolicy(sig, position))
            /\ peakEquity' = peak
            /\ maxDrawdown' = MathMax(maxDrawdown, point.drawdown)
            /\ equityCurve' = RecordEquity(equityCurve, point)
            /\ capital' = eng.capital
            /\ position' = eng.position
            /\ trades' = eng.trades
            /\ result' = SharingArrays(result, eng.trades,
                                       RecordEquity(equityCurve, point))
    /\ i' = i + 1
    /\ UNCHANGED <<pc, origin, request, response, config, bars,
                   error, runNo, firstResult, strategyArgs>>

\* The tail of run: close-out, generateReport, return; the route sends the
\* result as the response.
RunReturn ==
    /\ pc = "loop"
    /\ i = Len(bars)
    /\ LET eng == CloseRemaining(config, Engine(capital, position, trades), bars)
       IN  /\ capital' = eng.capital
           /\ position' = eng.position
           /\ trades' = eng.trades
           /\ result' = generateReport(config, instances[config.strategy], eng,
                                       equityCurve)
           /\ firstResult' = IF result = NoResult
                             THEN firstResult
                             ELSE SharingArrays(result, eng.trades, equityCurve)
    /\ callLog' = IF position > 0
                  THEN Append(callLog, Call("executeSell", Len(bars) - 1))
                  ELSE callLog
    /\ response' = IF origin = "route" THEN Response(200, "") ELSE response
    /\ pc' = "done"
    /\ UNCHANGED <<origin, instances, request, config, bars, equityCurve, i,
                   signal, peakEquity, maxDrawdown, error, runNo, strategyArgs>>

\* The direct caller repeats run 1: a new engine with the same config, a new
\* strategy constructed as before (for a stub, the same decision function:
\* the plan run 1 asked for), the same bars.
FreshStrategy(args, used) == [args EXCEPT !.plan = used.plan]

RunAgainFresh ==
    /\ pc = "done"
    /\ origin = "direct"
    /\ runNo = 1
    /\ firstResult' = result
    /\ result' = NoResult
    /\ instances' = [instances EXCEPT !["own"] = FreshStrategy(strategyArgs, @)]
    /\ LET eng == NewEngine(config)
           pro == RunPrologue(strategyArgs, bars)
       IN  /\ capital' = eng.capital
           /\ position' = eng.position
           /\ trades' = eng.trades
           /\ equityCurve' = eng.equityCurve
           /\ EnterLoop(config, pro.calls)
    /\ runNo' = 2
    /\ pc' = "loop"
    /\ UNCHANGED <<origin, request, response, config, bars, error, strategyArgs>>

\* run as a function of its inputs, for a strategy whose analyze is a
\* function of (bars, index): the engine, equity curve and peak after the
\* first k loop iterations, and the result returned.
RECURSIVE RunLoopState(_, _, _, _)
RunLoopState(cfg, strategy, bs, k) ==
    IF k = 0
    THEN [eng |-> Engine(NewEngine(cfg).capital, NewEngine(cfg).position,
                         NewEngine(cfg).trades),
          curve |-> NewEngine(cfg).equityCurve,
          peak |-> cfg.initialCapital,
          signal |-> Hold]
    ELSE LET prev == RunLoopState(cfg, strategy, bs, k - 1)
             sig == CHOOSE sg \in Analyze(strategy, bs, k - 1) : TRUE
             bar == BarAt(bs, k - 1)
             currentEquity == prev.eng.capital + prev.eng.position * bar.c
             peak == NewPeak(prev.peak, currentEquity)
         IN  [eng |-> ExecuteSignal(cfg, prev.eng, bar, sig),
              curve |-> RecordEquity(prev.curve,
                                     EquityPoint(bar, currentEquity, peak)),
              peak |-> peak,
              signal |-> sig]

RunAlone(cfg, strategy, bs) ==
    LET last == RunLoopState(cfg, strategy, bs, Len(bs))
    IN  generateReport(cfg, strategy, CloseRemaining(cfg, last.eng, bs),
                       last.curve)

\* The direct caller calls run again on the same engine, with the same bars
\* and still holding the first result: run resets none of the engine's
\* fields, only its own locals.
RunAgainSame ==
    /\ pc = "done"
    /\ origin = "direct"
    /\ runNo = 1
    /\ LET pro == RunPrologue(instances[config.strategy], bars)
       IN  EnterLoop(config, pro.calls)
    /\ runNo' = 2
    /\ pc' = "loop"
    /\ UNCHANGED <<origin, instances, request, response, config, bars,
                   engineVars, result, error, firstResult, strategyArgs>>

\* ------------------------------------------------------------------ route
\* `parameters` of a request body: omitted, or an object overriding some keys.
ParameterOverrides ==
    {[shortPeriod |-> 1, longPeriod |-> 2], [longPeriod |-> 2], [period |-> 1]}

Bodies ==
    [symbol : {"", "aapl"},
     strategyId : {"", "sma-crossover", "rsi", "unknown"},
     startDate : {"", "2024-01-01"},
     endDate : {"", "2024-12-31"},
     initialCapital : {OmittedNumber, Given(0), Given(8)},
     parameters : {OmittedObject} \cup {Given(o) : o \in ParameterOverrides}]

\* String.prototype.toUpperCase on the symbols of Bodies.
toUpperCase(symbol) == IF symbol = "aapl" THEN "AAPL" ELSE symbol

\* { ...base, ...params }
Spread(base, params) ==
    [k \in DOMAIN base \cup DOMAIN params |->
        IF k \in DOMAIN params THEN params[k] ELSE base[k]]

\* getStrategy(name, params): the registry's instance, its parameters
\* overwritten in place when params are given; null for an unknown name.
getStrategy(objs, name, params) ==
    IF name \notin RegistryIds
    THEN [found |-> FALSE, instances |-> objs]
    ELSE [found |-> TRUE,
          instances |->
              IF ~params.given
              THEN objs
              ELSE [objs EXCEPT ![name].parameters =
                        Spread(objs[name].parameters, params.value)]]

\* The required-field check of the handler.
MissingRequiredFields(body) ==
    body.symbol = "" \/ body.strategyId = "" \/ body.startDate = ""
        \/ body.endDate = ""

\* The destructuring default of the handler.
ResolvedInitialCapital(body) ==
    IF ~body.initialCapital.given
    THEN DefaultInitialCapital
    ELSE body.initialCapital.value

\* POST /api/backtest up to `await alpacaClient.getBars(...)`.
Post(body) ==
    /\ pc = "idle"
    /\ origin' = "route"
    /\ LET got == getStrategy(instances, body.strategyId, body.parameters)
       IN  IF MissingRequiredFields(body)
           THEN /\ response' = Response(400,
                       "Missing required fields: symbol, strategyId, startDate, endDate")
                /\ pc' = "responded"
                /\ UNCHANGED <<instances, request, strategyArgs>>
           ELSE IF ~got.found
           THEN /\ response' = Response(404, "Strategy not found")
                /\ pc' = "responded"
                /\ UNCHANGED <<instances, request, strategyArgs>>
           ELSE /\ instances' = got.instances
                /\ strategyArgs' = got.instances[body.strategyId]
                /\ request' = body
                /\ pc' = "awaitBars"
                /\ UNCHANGED response
    /\ UNCHANGED <<config, bars, engineVars, i, signal, peakEquity, maxDrawdown, callLog,
                   result, error, runNo, firstResult>>

\* getBars resolves: the handler answers 400 for no bars, else constructs the
\* engine and calls run; an Error thrown by run is answered with 500.
GetBarsReturn(bs) ==
    /\ pc = "awaitBars"
    /\ bars' = bs
    /\ IF Len(bs) = 0
       THEN /\ response' = Response(400,
                   "No historical data available for the given period")
            /\ pc' = "responded"
            /\ UNCHANGED <<config, engineVars, i, signal, peakEquity, maxDrawdown,
                           callLog, error, runNo>>
       ELSE LET cfg == Config(toUpperCase(request.symbol), request.startDate,
                              request.endDate, ResolvedInitialCapital(request),
                              request.strategyId, 0)
                eng == NewEngine(cfg)
                pro == RunPrologue(instances[cfg.strategy], bs)
            IN  /\ config' = cfg
                /\ capital' = eng.capital
                /\ position' = eng.position
                /\ trades' = eng.trades
                /\ equityCurve' = eng.equityCurve
                /\ IF pro.threw
                   THEN /\ response' = Response(500, "No bars provided for backtest")
                        /\ error' = "No bars provided for backtest"
                        /\ pc' = "responded"
                        /\ callLog' = pro.calls
                        /\ UNCHANGED <<i, signal, peakEquity, maxDrawdown, runNo>>
                   ELSE /\ EnterLoop(cfg, pro.calls)
                        /\ runNo' = 1
                        /\ pc' = "loop"
                        /\ UNCHANGED <<response, error>>
    /\ UNCHANGED <<origin, instances, request, result, firstResult, strategyArgs>>

\* getBars rejects: the handler's catch answers 500.
GetBarsThrow ==
    /\ pc = "awaitBars"
    /\ response' = Response(500, "Failed to fetch bars")
    /\ pc' = "responded"
    /\ UNCHANGED <<origin, instances, request, config, bars, engineVars, i,
                   signal, peakEquity, maxDrawdown, callLog, result, error, runNo,
                   firstResult, strategyArgs>>

\* The handler has answered and returned: its locals are gone, the module's
\* registry stays as the request left it, and the server takes the next
\* request.
HandlerReturns ==
    /\ origin = "route"
    /\ pc \in {"responded", "done"}
    /\ pc' = "idle"
    /\ origin' = "none"
    /\ request' = NoRequest
    /\ response' = NoResponse
    /\ config' = NoConfig
    /\ bars' = <<>>
    /\ capital' = 0
    /\ position' = 0
    /\ trades' = <<>>
    /\ equityCurve' = <<>>
    /\ i' = 0
    /\ signal' = Hold
    /\ peakEquity' = 0
    /\ maxDrawdown' = FInt(0)
    /\ callLog' = <<>>
    /\ result' = NoResult
    /\ error' = NoError
    /\ runNo' = 0
    /\ strategyArgs' = NoStrategy
    /\ UNCHANGED <<instances, firstResult>>

\* The body the strategies router sends: the parameters of the listed ids.
StrategyInfo(objs, ids) ==
    [status |-> 200, error |-> "",
     parameters |-> [id \in ids |-> objs[id].parameters]]

\* GET /api/strategies: the listing of the registry.
GetStrategies ==
    /\ pc = "idle"
    /\ origin' = "route"
    /\ response' = StrategyInfo(instances, RegistryIds)
    /\ pc' = "responded"
    /\ UNCHANGED <<instances, request, config, bars, engineVars, i, signal,
                   peakEquity, maxDrawdown, callLog, result, error, runNo,
                   firstResult, strategyArgs>>

\* GET /api/strategies/:strategyId: getStrategy(strategyId) without params.
GetStrategyById(strategyId) ==
    /\ pc = "idle"
    /\ origin' = "route"
    /\ LET got == getStrategy(instances, strategyId, OmittedObject)
       IN  /\ instances' = got.instances
           /\ response' = IF got.found
                           THEN StrategyInfo(got.instances, {strategyId})
                           ELSE Response(404, "Strategy not found")
    /\ pc' = "responded"
    /\ UNCHANGED <<request, config, bars, engineVars, i, signal, peakEquity,
                   maxDrawdown, callLog, result, error, runNo, firstResult,
                   strategyArgs>>

\* A second POST /api/backtest arrives while the first handler is suspended
\* in `await alpacaClient.getBars(...)`: its handler runs up to its own await
\* (or to its 400/404 answer).  Its later run reads the strategy and writes
\* nothing the first request can see, so only its getStrategy is modelled.
ConcurrentPost(body) ==
    /\ pc = "awaitBars"
    /\ LET got == getStrategy(instances, body.strategyId, body.parameters)
       IN  instances' = IF MissingRequiredFields(body) \/ ~got.found
                        THEN instances
                        ELSE got.instances
    /\ UNCHANGED <<pc, origin, request, response, config, bars, engineVars, i,
                   signal, peakEquity, maxDrawdown, callLog, result, error, runNo,
                   firstResult, strategyArgs>>

\* ---------------------------------------------------------- specification
Next ==
    \/ \E s \in {StubStrategy} \cup {SMAStrategy(p) : p \in SMAParameterChoices}
                   \cup {RSIStrategy(p) : p \in RSIParameterChoices},
          c \in InitialCapitals, k \in Commissions : Construct(s, c, k)
    \/ \E bs \in AllBarSeqs : RunCall(bs)
    \/ LoopIteration
    \/ RunReturn
    \/ \E body \in Bodies : Post(body)
    \/ \E bs \in AllBarSeqs : GetBarsReturn(bs)
    \/ GetBarsThrow

Spec == Init /\ [][Next]_vars

\* A direct caller running a stub strategy over bars at real price scale.
NextScenario ==
    \/ \E c \in ScenarioCapitals, k \in Commissions : Construct(StubStrategy, c, k)
    \/ \E bs \in ScenarioBarSeqs : RunCall(bs)
    \/ LoopIteration
    \/ RunReturn

SpecScenario == Init /\ [][NextScenario]_vars

\* A direct caller running a stub strategy without commission or with a
\* commission above the price of a share.
NextCostly ==
    \/ \E c \in CostlyCapitals, k \in CostlyCommissions : Construct(StubStrategy, c, k)
    \/ \E bs \in AllBarSeqs : RunCall(bs)
    \/ LoopIteration
    \/ RunReturn

SpecCostly == Init /\ [][NextCostly]_vars

\* The HTTP server: backtest requests one after another or overlapping at the
\* await, and the strategies router.
NextServer ==
    \/ \E body \in Bodies : Post(body)
    \/ \E bs \in AllBarSeqs : GetBarsReturn(bs)
    \/ GetBarsThrow
    \/ LoopIteration
    \/ RunReturn
    \/ HandlerReturns
    \/ GetStrategies
    \/ \E id \in RegistryIds \cup {"unknown"} : GetStrategyById(id)
    \/ \E body \in Bodies : ConcurrentPost(body)

SpecServer == Init /\ [][NextServer]_vars

\* The same, with the direct caller repeating its run once.
NextTwice == Next \/ RunAgainFresh

SpecTwice == Init /\ [][NextTwice]_vars

\* A direct caller running the SMA crossover and RSI strategies over the
\* longer bar sequences.
NextIndicators ==
    \/ \E s \in {SMAStrategy(p) : p \in SMAParameterChoices}
                   \cup {RSIStrategy(p) : p \in RSIParameterChoices},
          c \in InitialCapitals, k \in Commissions : Construct(s, c, k)
    \/ \E bs \in LongBarSeqs : RunCall(bs)
    \/ LoopIteration
    \/ RunReturn

SpecIndicators == Init /\ [][NextIndicators]_vars

\* The same as Spec, with the direct caller calling run a second time on the
\* engine it has.
NextReuse == Next \/ RunAgainSame

SpecReuse == Init /\ [][NextReuse]_vars

\* ----------------------------------------------------------------- claims
Done == pc = "done"

Strategy == instances[config.strategy]

LastTrade == trades[Len(trades)]

\* C1: a run returns an equity curve with exactly one point per input bar, in
\* bar order: as many points as bars, point k carrying the timestamp of bar k.
C1_EquityCurveOnePointPerBar ==
    Done =>
        /\ Len(result.equity_curve) = Len(bars)
        /\ \A k \in 1..Len(bars) : result.equity_curve[k].timestamp = bars[k].t

\* C1 witness: a finished run over several bars during which equity stayed
\* the same from one bar to the next.
C1_Witness ==
    /\ Done
    /\ Len(bars) >= 2
    /\ result.equity_curve[1].equity = result.equity_curve[2].equity

\* C2: when the result is built the position is 0, so final_capital is the
\* cash after the end-of-run liquidation.
C2_NoOpenPositionInResult ==
    Done => position = 0 /\ result.final_capital = capital

\* C2 witness: a finished run whose last trade is the forced liquidation.
C2_Witness ==
    /\ Done
    /\ Len(trades) > 0
    /\ LastTrade.reason = "End of backtest"
    /\ result.final_capital = capital

\* C3: in one loop iteration a buy is executed only for a buy signal at a
\* flat position with confidence > 0.5, a sell only for a sell signal at an
\* open position with confidence > 0.5; every other combination leaves cash,
\* position and trade log unchanged; at most one trade per iteration.
C3_TradePolicy ==
    [][(pc = "loop" /\ i' = i + 1) =>
        LET confident == FLess(Frac(1, 2), signal'.confidence)
            buyOk == signal'.action = "buy" /\ position = 0 /\ confident
            sellOk == signal'.action = "sell" /\ position > 0 /\ confident
            added == Len(trades') - Len(trades)
        IN  /\ added \in {0, 1}
            /\ SubSeq(trades', 1, Len(trades)) = trades
            /\ (added = 1 /\ trades'[Len(trades')].action = "buy") => buyOk
            /\ (added = 1 /\ trades'[Len(trades')].action = "sell") => sellOk
            /\ (~buyOk /\ ~sellOk) =>
                   capital' = capital /\ position' = position /\ trades' = trades
    ]_vars

\* C3 witness: after an executed buy, a sell signal of confidence exactly 0.5
\* has been passed over.
C3_Witness ==
    /\ pc = "loop"
    /\ i >= 2
    /\ signal = Signal("sell", Frac(1, 2))
    /\ Len(trades) = 1
    /\ trades[1].action = "buy"
    /\ position > 0

\* C4: the position is never negative and at most one position is open: the
\* trade log alternates buy, sell, buy, ... starting with a buy, and a
\* position is open exactly after a buy.
C4_SinglePositionAlternation ==
    /\ position >= 0
    /\ \A k \in 1..Len(trades) :
           trades[k].action = IF k % 2 = 1 THEN "buy" ELSE "sell"
    /\ (position > 0) <=> (Len(trades) % 2 = 1)

\* C4 witness: a confident buy signal arrived at a bar after the one the open
\* position was bought at, and was not executed.
C4_Witness ==
    /\ pc = "loop"
    /\ Len(trades) = 1
    /\ position > 0
    /\ signal = Signal("buy", FInt(1))
    /\ trades[1].timestamp < i

\* C5: the timestamps of the trades, in log order, are bar timestamps and
\* strictly increase: no two trades share a bar, the forced liquidation
\* included.
C5_TradesStrictSubsequence ==
    \A k \in 1..Len(trades) :
        /\ \E b \in 1..Len(bars) : bars[b].t = trades[k].timestamp
        /\ k > 1 => trades[k - 1].timestamp < trades[k].timestamp

\* C6: run on an empty bar sequence throws before any effect: no result, no
\* call on the strategy, cash, position, trade log and equity curve as they
\* were; the route answers an empty bar sequence with an error, without
\* running an engine.
C6_EmptyBarsFailBeforeAnyEffect ==
    [][/\ (pc = "constructed" /\ pc' # pc /\ bars' = <<>>) =>
            /\ pc' = "threw"
            /\ error' = "No bars provided for backtest"
            /\ result' = NoResult
            /\ callLog' = <<>>
            /\ UNCHANGED engineVars
       /\ (pc = "awaitBars" /\ pc' # pc /\ bars' = <<>>) =>
            /\ pc' = "responded"
            /\ response'.status \in {400, 500}
            /\ result' = NoResult
            /\ callLog' = <<>>
            /\ UNCHANGED engineVars
    ]_vars

\* C6 witness: run has thrown on empty input for a strategy that defines
\* initialize, on an engine holding its initial capital.
C6_Witness ==
    /\ pc = "threw"
    /\ bars = <<>>
    /\ HasInitialize(Strategy)
    /\ capital = config.initialCapital
    /\ capital > 0

\* C7: a configuration with initialCapital <= 0 never yields a BacktestResult,
\* neither from an engine constructed and run directly nor from the route.
C7_NonPositiveCapitalRejected ==
    (config # NoConfig /\ config.initialCapital <= 0) => result = NoResult

\* C8: the same bars and config run twice, each time on a new engine with a
\* newly constructed strategy, give identical results.
C8_RepeatedRunIdentical ==
    (Done /\ runNo = 2) => result = firstResult

\* C8 witness: the second run has finished with trades in its result.
C8_Witness ==
    /\ Done
    /\ runNo = 2
    /\ firstResult # NoResult
    /\ Len(result.trades) >= 2
    /\ result.final_capital # result.initial_capital

\* The running peak at point k of a curve: the largest of initialCapital and
\* the equities up to k.
RECURSIVE RunningPeak(_, _, _)
RunningPeak(initial, curve, k) ==
    IF k = 0 THEN initial
    ELSE LET before == RunningPeak(initial, curve, k - 1)
         IN  IF curve[k].equity > before THEN curve[k].equity ELSE before

\* C9: max_drawdown is >= the drawdown of every equity point and equals one
\* of them, each drawdown being (peak - equity)/peak against the running
\* peak, which starts at initialCapital.
C9_MaxDrawdownIsMaximum ==
    Done =>
        LET curve == result.equity_curve
        IN  /\ \A k \in 1..Len(curve) :
                   FLessEq(curve[k].drawdown, result.max_drawdown)
            /\ \E k \in 1..Len(curve) : result.max_drawdown = curve[k].drawdown
            /\ \A k \in 1..Len(curve) :
                   LET peak == RunningPeak(config.initialCapital, curve, k)
                   IN  curve[k].drawdown = Frac(peak - curve[k].equity, peak)

\* C9 on the configurations the engine is meant for: the same statement for
\* runs with initialCapital > 0.
C9_ForPositiveCapital ==
    (config # NoConfig /\ config.initialCapital > 0) => C9_MaxDrawdownIsMaximum

\* C10: the SMA crossover strategy answers hold with confidence 0 at every
\* index below longPeriod, so no trade of its run is at such an index.
C10_SMAWarmUpHolds ==
    (pc \in {"loop", "done"} /\ Strategy.kind = "sma") =>
        LET longPeriod == Strategy.parameters.longPeriod
        IN  /\ (i >= 1 /\ i - 1 < longPeriod) => signal = Hold
            /\ \A k \in 1..Len(trades) : trades[k].timestamp - 1 >= longPeriod

\* C10 witness: an SMA run has traded after its warm-up.
C10_Witness ==
    /\ Done
    /\ Strategy.kind = "sma"
    /\ Len(bars) > Strategy.parameters.longPeriod
    /\ Len(trades) > 0

\* C11: an RSI strategy answers hold with confidence 0 at every index below
\* period + 1, so a backtest with it has no trade at a bar index below
\* period + 1.
C11_RSIWarmUpHolds ==
    (pc \in {"loop", "done"} /\ Strategy.kind = "rsi") =>
        LET period == Strategy.parameters.period
        IN  /\ (i >= 1 /\ i - 1 < period + 1) => signal = Hold
            /\ \A k \in 1..Len(trades) : trades[k].timestamp - 1 >= period + 1

\* C11 witness: an RSI run has traded after its warm-up.
C11_Witness ==
    /\ Done
    /\ Strategy.kind = "rsi"
    /\ Len(bars) > Strategy.parameters.period + 1
    /\ Len(trades) > 0

\* The initial capital is below the close of every bar of the run.
BelowEveryClose ==
    \A k \in 1..Len(bars) : config.initialCapital < bars[k].c

\* C12: when the initial capital is smaller than the close of every bar, the
\* run executes no trade, whatever the signals and the commission, and the
\* final capital equals the initial capital.
C12_NoAffordableShareNoTrade ==
    (pc \in {"loop", "done"} /\ BelowEveryClose) =>
        /\ trades = <<>>
        /\ position = 0
        /\ Done => /\ result.total_trades = 0
                   /\ result.final_capital = result.initial_capital

\* C12 witness: a run with a positive capital below every close has finished
\* although the strategy asked to buy with full confidence.
C12_Witness ==
    /\ Done
    /\ Len(bars) > 0
    /\ config.initialCapital > 0
    /\ BelowEveryClose
    /\ \E k \in 1..Len(Strategy.plan) : Strategy.plan[k] = Signal("buy", FInt(1))
    /\ result.total_trades = 0

\* The buy-then-sell scenario: closes 100, 100, 120, a stub strategy answering
\* buy, hold, sell with full confidence, capital 1000 and no commission.
BuyThenSellScenario ==
    /\ Len(bars) = 3
    /\ bars[1].c = 100 /\ bars[2].c = 100 /\ bars[3].c = 120
    /\ Strategy.kind = "stub"
    /\ Strategy.plan = <<Signal("buy", FInt(1)), Hold, Signal("sell", FInt(1))>>
    /\ config.initialCapital = 1000
    /\ config.commission = 0

\* C13: the buy-then-sell scenario returns one buy of 10 shares at bar 0 and
\* one sell of 10 shares at 120 at bar 2, final capital 1200, total return
\* 200 (20 percent), 2 trades, 1 winning trade and a win rate of 100.
C13_BuyThenSellScenario ==
    (Done /\ BuyThenSellScenario) =>
        /\ Len(result.trades) = 2
        /\ result.trades[1].action = "buy"
        /\ result.trades[1].quantity = 10
        /\ result.trades[1].timestamp = bars[1].t
        /\ result.trades[2].action = "sell"
        /\ result.trades[2].quantity = 10
        /\ result.trades[2].price = 120
        /\ result.trades[2].timestamp = bars[3].t
        /\ result.final_capital = 1200
        /\ result.total_return = 200
        /\ result.total_return_pct = FInt(20)
        /\ result.total_trades = 2
        /\ result.winning_trades = 1
        /\ result.win_rate = FInt(100)

\* C13 witness: the buy-then-sell scenario has run to its result.
C13_Witness == Done /\ BuyThenSellScenario /\ result.total_trades = 2

\* The strategy's executed buy on bar 0 was never followed by a sell signal.
BoughtOnBarZeroNeverSold ==
    /\ Len(trades) >= 1
    /\ trades[1].action = "buy"
    /\ trades[1].timestamp = bars[1].t
    /\ Strategy.kind = "stub"
    /\ \A k \in 2..Len(Strategy.plan) : Strategy.plan[k].action # "sell"

\* Sum of bought minus sold quantities over a trade log.
RECURSIVE NetPosition(_)
NetPosition(ts) ==
    IF ts = <<>> THEN 0
    ELSE LET t == ts[Len(ts)]
         IN  NetPosition(SubSeq(ts, 1, Len(ts) - 1))
                 + (IF t.action = "buy" THEN t.quantity ELSE 0 - t.quantity)

\* C14: when the strategy buys on bar 0 and never signals sell afterwards, the
\* result shows exactly 2 trades, the buy and an end-of-run sell of the whole
\* position at the last bar's close with reason "End of backtest", and the
\* bought minus sold quantities of the log sum to zero.
C14_ForcedLiquidation ==
    (Done /\ BoughtOnBarZeroNeverSold) =>
        /\ Len(result.trades) = 2
        /\ result.total_trades = 2
        /\ result.trades[2].action = "sell"
        /\ result.trades[2].reason = "End of backtest"
        /\ result.trades[2].quantity = result.trades[1].quantity
        /\ result.trades[2].price = bars[Len(bars)].c
        /\ result.trades[2].timestamp = bars[Len(bars)].t
        /\ NetPosition(result.trades) = 0
        /\ position = 0

\* C14 witness: a run over several bars bought on bar 0, saw no sell signal
\* and has returned its result.
C14_Witness ==
    /\ Done
    /\ BoughtOnBarZeroNeverSold
    /\ Len(bars) > 1
    /\ LastTrade.timestamp = bars[Len(bars)].t

\* C15: a run that executes no trade returns total_trades = 0, a final capital
\* equal to the initial capital, a total return of 0, every equity point at
\* the initial capital, max_drawdown = 0, sharpe_ratio = 0 and win_rate = 0.
C15_NoTradeResult ==
    (Done /\ trades = <<>>) =>
        /\ result.total_trades = 0
        /\ result.final_capital = result.initial_capital
        /\ result.total_return = 0
        /\ \A k \in 1..Len(result.equity_curve) :
               result.equity_curve[k].equity = result.initial_capital
        /\ result.max_drawdown = FInt(0)
        /\ result.sharpe_ratio.zero
        /\ result.win_rate = FInt(0)

\* C15 on the configurations the engine is meant for: the same statement for
\* runs with initialCapital > 0.
C15_ForPositiveCapital ==
    (config # NoConfig /\ config.initialCapital > 0) => C15_NoTradeResult

\* The default parameters of a registry entry.
DefaultParameters(id) == RegistryDefault(id).parameters

\* C16: parameter overrides of one request never persist: the strategies
\* router always answers with the default parameters, and a backtest request
\* without overrides is handed the strategy with its default parameters.
C16_OverridesNeverPersist ==
    /\ "parameters" \in DOMAIN response =>
           \A id \in DOMAIN response.parameters :
               response.parameters[id] = DefaultParameters(id)
    /\ (origin = "route" /\ pc = "awaitBars" /\ ~request.parameters.given) =>
           strategyArgs.parameters = DefaultParameters(request.strategyId)

\* C17: while a request's run is under way the strategy holds the parameters
\* that request's getStrategy resolved, whatever other requests do in the
\* meantime, and the result sent is the one the request gets when run alone.
C17_RunReadsOwnParameters ==
    (origin = "route" /\ pc \in {"loop", "done"}) =>
        /\ Strategy.parameters = strategyArgs.parameters
        /\ Done => result = RunAlone(config, strategyArgs, bars)

\* C18: a result, once returned, keeps its trades and equity_curve whatever
\* is done with the engine afterwards, and a run that starts on an engine that
\* has already returned a result starts from initialCapital with an empty
\* trade log and an empty equity curve.
C18_ResultNeverMutated ==
    [][/\ (result # NoResult /\ result' # NoResult /\ pc' = "loop") =>
              /\ result'.trades = result.trades
              /\ result'.equity_curve = result.equity_curve
       /\ (pc = "done" /\ pc' = "loop") =>
              /\ capital' = config'.initialCapital
              /\ trades' = <<>>
              /\ equityCurve' = <<>>]_vars

\* The first n bars of a sequence.
Prefix(bs, n) == SubSeq(bs, 1, n)

\* C19: the SMA crossover and RSI strategies answer analyze(bars, k) the same
\* on any two bar sequences that agree on indices 0..k, and the engine's
\* state after processing bar i - 1 is the state of a run on the first i bars
\* alone.
C19_NoLookAhead ==
    (pc = "loop" /\ Strategy.kind \in {"sma", "rsi"}) =>
        /\ \A k \in 0..(Len(bars) - 1) :
               \A other \in LongBarSeqs :
                   (Len(other) > k /\ Prefix(other, k + 1) = Prefix(bars, k + 1))
                       => Analyze(Strategy, other, k) = Analyze(Strategy, bars, k)
        /\ LET alone == RunLoopState(config, Strategy, Prefix(bars, i), i)
           IN  /\ i >= 1 => signal = alone.signal
               /\ Engine(capital, position, trades) = alone.eng
               /\ equityCurve = alone.curve

\* C19 witness: an SMA or RSI run has acted on a buy or sell signal at a bar
\* that is followed by a later bar.
C19_Witness ==
    /\ pc = "loop"
    /\ Strategy.kind \in {"sma", "rsi"}
    /\ 1 <= i /\ i < Len(bars)
    /\ signal.action # "hold"
    /\ Len(trades) > 0
    /\ LastTrade.timestamp = bars[i].t

IsStrategyAnalyze(call) == call.op = "analyze"

IsStrategyInitialize(call) == call.op = "initialize"

IsOrder(call) == call.op \in {"executeBuy", "executeSell"}

\* C20: in one run initialize, when the strategy defines it, is called once
\* and before the first analyze; analyze is called once per bar with indices
\* 0, 1, ..., n - 1 in that order; and the equity point of bar k is pushed
\* after analyze(bars, k) and before any order of bar k.
C20_CallOrder ==
    (pc \in {"loop", "done"}) =>
        /\ SelectSeq(callLog, IsStrategyInitialize) =
               (IF HasInitialize(Strategy) THEN <<Call("initialize", -1)>> ELSE <<>>)
        /\ HasInitialize(Strategy) => callLog[1] = Call("initialize", -1)
        /\ SelectSeq(callLog, IsStrategyAnalyze) =
               [k \in 1..i |-> Call("analyze", k - 1)]
        /\ Done => i = Len(bars)
        /\ \A k \in 0..(i - 1) :
               \E a, e \in DOMAIN callLog :
                   /\ callLog[a] = Call("analyze", k)
                   /\ callLog[e] = Call("equityCurve.push", k)
                   /\ a < e
                   /\ \A o \in DOMAIN callLog :
                          (IsOrder(callLog[o]) /\ callLog[o].index = k) => e < o
                   /\ \A o \in DOMAIN callLog :
                          callLog[o] = Call("equityCurve.push", k) => o = e

\* C20 witness: a finished run of a strategy with initialize over several
\* bars that executed an order.
C20_Witness ==
    /\ Done
    /\ HasInitialize(Strategy)
    /\ Len(bars) >= 2
    /\ \E o \in DOMAIN callLog : IsOrder(callLog[o])

InUnitInterval(f) == FLessEq(FInt(0), f) /\ FLessEq(f, FInt(1))

\* C21: for a run with initialCapital > 0 and commission >= 0 (closes are
\* positive) every drawdown of the equity curve and the result's
\* max_drawdown lie in [0, 1].
C21_DrawdownIsFraction ==
    (pc \in {"loop", "done"} /\ config.initialCapital > 0
         /\ config.commission >= 0) =>
        /\ \A k \in 1..Len(equityCurve) : InUnitInterval(equityCurve[k].drawdown)
        /\ Done => InUnitInterval(result.max_drawdown)

\* C21 for commissions below the price of a share: the same statement for
\* runs whose commission is smaller than every close.
C21_ForCheapCommission ==
    (config # NoConfig
         /\ \A k \in 1..Len(bars) : config.commission < bars[k].c)
        => C21_DrawdownIsFraction

\* This step appended one trade with the given action to the log.
Executed(action) ==
    /\ Len(trades') = Len(trades) + 1
    /\ SubSeq(trades', 1, Len(trades)) = trades
    /\ trades'[Len(trades')].action = action

\* C22: an executed buy fills q = floor((cash - commission) / p) shares at the
\* bar's close p, the largest q with q * p + commission <= cash; it debits
\* q * p + commission from cash, adds q to the position and logs one buy
\* trade with quantity q, price p and value q * p + commission, and cash is
\* >= 0 right after it.
C22_BuyFill ==
    [][Executed("buy") =>
           LET t == trades'[Len(trades')]
               p == bars[t.timestamp].c
               q == t.quantity
               commission == config.commission
           IN  /\ t.timestamp = i + 1
               /\ q = (capital - commission) \div p
               /\ q > 0
               /\ q * p + commission <= capital
               /\ (q + 1) * p + commission > capital
               /\ t.price = p
               /\ t.value = q * p + commission
               /\ capital' = capital - (q * p + commission)
               /\ position' = position + q
               /\ capital' >= 0]_vars

\* C22 witness: a buy has executed with a commission and left cash over.
C22_Witness ==
    /\ pc = "loop"
    /\ config.commission = 1
    /\ Len(trades) = 1
    /\ LastTrade.action = "buy"
    /\ LastTrade.timestamp = i
    /\ capital > 0

\* C23: an executed sell sells the whole position at the bar's close: it logs
\* one sell trade with the quantity held before, that price and value
\* quantity * price - commission, credits that value to cash and sets the
\* position to 0; every sell trade has the quantity of the buy trade just
\* before it in the log.
C23_SellFill ==
    [][/\ Executed("sell") =>
              LET t == trades'[Len(trades')]
                  p == bars[t.timestamp].c
              IN  /\ t.timestamp = (IF pc' = "done" THEN Len(bars) ELSE i + 1)
                  /\ t.quantity = position
                  /\ position > 0
                  /\ t.price = p
                  /\ t.value = position * p - config.commission
                  /\ capital' = capital + t.value
                  /\ position' = 0
       /\ \A k \in 1..Len(trades') :
              trades'[k].action = "sell" =>
                  /\ k > 1
                  /\ trades'[k - 1].action = "buy"
                  /\ trades'[k].quantity = trades'[k - 1].quantity]_vars

\* C23 witness: a sell has executed on a strategy signal with a commission.
C23_Witness ==
    /\ pc = "loop"
    /\ config.commission = 1
    /\ Len(trades) = 2
    /\ LastTrade.action = "sell"
    /\ LastTrade.reason = "Strategy signal"
    /\ LastTrade.timestamp = i
    /\ position = 0

\* The signal analyze returned in this loop iteration asks for an order that
\* cannot execute: a buy above the threshold that affords no share, or a sell
\* without a position.
NoOpOrder ==
    \/ /\ signal'.action = "buy"
       /\ FLess(ConfidenceThreshold, signal'.confidence)
       /\ (capital - config.commission) \div bars[i + 1].c <= 0
    \/ /\ signal'.action = "sell"
       /\ position = 0

\* C24: a loop iteration whose signal is a buy above the threshold affording
\* no share, or a sell without a position, raises no error, leaves cash,
\* position and the trade log as they were, records the bar's equity point
\* and lets the run go on.
C24_SilentNoOps ==
    [][(pc = "loop" /\ i' = i + 1 /\ NoOpOrder) =>
           /\ capital' = capital
           /\ position' = position
           /\ trades' = trades
           /\ error' = NoError
           /\ pc' = "loop"
           /\ Len(equityCurve') = Len(equityCurve) + 1
           /\ equityCurve'[Len(equityCurve')].timestamp = bars[i + 1].t]_vars

\* C24 witness: a run went through an unaffordable buy and then a sell
\* without a position, and has a bar left.
C24_Witness ==
    /\ pc = "loop"
    /\ i = 2
    /\ i < Len(bars)
    /\ Strategy.kind = "stub"
    /\ Strategy.plan = <<Signal("buy", FInt(1)), Signal("sell", FInt(1))>>
    /\ config.initialCapital = 1
    /\ capital = 1
    /\ trades = <<>>
    /\ Len(equityCurve) = 2

\* The pairs of a log counted as winning when paired by position: trade
\* 2k - 1 with trade 2k.
WinningPairs(ts) ==
    {k \in 1..(Len(ts) \div 2) : ts[2 * k].value - ts[2 * k - 1].value > 0}

\* C25: the result's log alternates buy and sell, so its k-th sell closes
\* its k-th buy; a pair is winning iff sell.value - buy.value > 0 and losing
\* otherwise; win_rate is winning / (winning + losing) * 100, and 0 without a
\* pair.
C25_WinStatistics ==
    Done =>
        LET ts == result.trades
            pairs == Len(ts) \div 2
            winning == Cardinality(WinningPairs(ts))
        IN  /\ \A k \in 1..Len(ts) :
                   ts[k].action = (IF k % 2 = 1 THEN "buy" ELSE "sell")
            /\ \A k \in 1..pairs :
                   /\ SelectSeq(ts, IsBuy)[k] = ts[2 * k - 1]
                   /\ SelectSeq(ts, IsSell)[k] = ts[2 * k]
            /\ result.winning_trades = winning
            /\ result.losing_trades = pairs - winning
            /\ result.win_rate =
                   (IF pairs > 0 THEN Frac(winning * 100, pairs) ELSE FInt(0))

\* C25 witness: a result whose pair was sold above its buying price, the
\* gain eaten by the commissions, and counted as losing.
C25_Witness ==
    /\ Done
    /\ config.commission > 0
    /\ Len(result.trades) = 2
    /\ result.trades[2].price > result.trades[1].price
    /\ result.winning_trades = 0
    /\ result.losing_trades = 1

\* The mean of the `period` closes ending at index endIndex.
WindowMean(bs, period, endIndex) ==
    LET window == {k \in 1..Len(bs) : endIndex - period + 1 <= k - 1 /\ k - 1 <= endIndex}
        sum[S \in SUBSET window] ==
            IF S = {} THEN 0
            ELSE LET k == CHOOSE x \in S : TRUE IN bs[k].c + sum[S \ {k}]
    IN  Frac(sum[window], period)

\* C26: at an index k >= longPeriod the SMA crossover strategy answers buy
\* iff shortSMA(k-1) <= longSMA(k-1) and shortSMA(k) > longSMA(k), sell iff
\* shortSMA(k-1) >= longSMA(k-1) and shortSMA(k) < longSMA(k), with the
\* confidence min of the percentage gap and 1, and hold otherwise; when
\* shortPeriod <= longPeriod the four averages are means over full windows.
C26_SMACrossoverRule ==
    (pc \in {"loop", "done"} /\ Strategy.kind = "sma" /\ i >= 1
         /\ i - 1 >= Strategy.parameters.longPeriod) =>
        LET k == i - 1
            shortPeriod == Strategy.parameters.shortPeriod
            longPeriod == Strategy.parameters.longPeriod
            shortNow == calculateSMA(bars, shortPeriod, k)
            longNow == calculateSMA(bars, longPeriod, k)
            shortBefore == calculateSMA(bars, shortPeriod, k - 1)
            longBefore == calculateSMA(bars, longPeriod, k - 1)
            crossedUp == FLessEq(shortBefore, longBefore) /\ FLess(longNow, shortNow)
            crossedDown == FLessEq(longBefore, shortBefore) /\ FLess(shortNow, longNow)
            gap == FMul(FDiv(FSub(shortNow, longNow), longNow), FInt(100))
            gapDown == FMul(FDiv(FSub(longNow, shortNow), longNow), FInt(100))
        IN  /\ signal.action = "buy" <=> crossedUp
            /\ signal.action = "sell" <=> crossedDown
            /\ signal.action = "hold" <=> (~crossedUp /\ ~crossedDown)
            /\ crossedUp => signal.confidence = MathMin(gap, FInt(1))
            /\ crossedDown => signal.confidence = MathMin(gapDown, FInt(1))
            /\ signal.action = "hold" => signal.confidence = FInt(0)
            /\ shortPeriod <= longPeriod =>
                   /\ shortNow = WindowMean(bars, shortPeriod, k)
                   /\ longNow = WindowMean(bars, longPeriod, k)
                   /\ shortBefore = WindowMean(bars, shortPeriod, k - 1)
                   /\ longBefore = WindowMean(bars, longPeriod, k - 1)
                   /\ k - 1 - longPeriod + 1 >= 0

\* C26 witness: the SMA crossover strategy answered buy at an index where
\* the two averages were equal one bar before.
C26_Witness ==
    /\ pc = "loop"
    /\ Strategy.kind = "sma"
    /\ i >= 1
    /\ i - 1 >= Strategy.parameters.longPeriod
    /\ Strategy.parameters.shortPeriod < Strategy.parameters.longPeriod
    /\ signal.action = "buy"
    /\ calculateSMA(bars, Strategy.parameters.shortPeriod, i - 2)
           = calculateSMA(bars, Strategy.parameters.longPeriod, i - 2)

\* The simple-average RSI over the `period` close-to-close changes ending at
\* index endIndex: 100 * gains / (gains + losses), and 100 without a losing
\* change.
SimpleRSI(bs, period, endIndex) ==
    LET changes == [k \in (endIndex - period + 1)..endIndex |->
                        bs[k + 1].c - bs[k].c]
        total[S \in SUBSET DOMAIN changes] ==
            IF S = {} THEN [gains |-> 0, losses |-> 0]
            ELSE LET k == CHOOSE x \in S : TRUE
                     rest == total[S \ {k}]
                 IN  IF changes[k] > 0
                     THEN [gains |-> rest.gains + changes[k], losses |-> rest.losses]
                     ELSE [gains |-> rest.gains, losses |-> rest.losses - changes[k]]
        all == total[DOMAIN changes]
    IN  IF all.losses = 0
        THEN FInt(100)
        ELSE Frac(100 * all.gains, all.gains + all.losses)

\* C27: at an index k >= period + 1 the RSI strategy answers, in this order
\* of priority: buy when RSI(k-1) <= oversold and RSI(k) > oversold; sell when
\* RSI(k-1) >= overbought and RSI(k) < overbought; buy when RSI(k) < oversold;
\* sell when RSI(k) > overbought; else hold, with the stated confidences,
\* which lie in [0, 1] when 0 < oversold < overbought < 100.
C27_RSIRule ==
    (pc \in {"loop", "done"} /\ Strategy.kind = "rsi" /\ i >= 1
         /\ i - 1 >= Strategy.parameters.period + 1) =>
        LET k == i - 1
            period == Strategy.parameters.period
            oversold == FInt(Strategy.parameters.oversoldLevel)
            overbought == FInt(Strategy.parameters.overboughtLevel)
            now == SimpleRSI(bars, period, k)
            before == SimpleRSI(bars, period, k - 1)
            expected ==
                IF FLessEq(before, oversold) /\ FLess(oversold, now)
                THEN Signal("buy", FDiv(FSub(oversold, before), oversold))
                ELSE IF FLessEq(overbought, before) /\ FLess(now, overbought)
                THEN Signal("sell", FDiv(FSub(before, overbought),
                                         FSub(FInt(100), overbought)))
                ELSE IF FLess(now, oversold)
                THEN Signal("buy", FDiv(FSub(oversold, now), oversold))
                ELSE IF FLess(overbought, now)
                THEN Signal("sell", FDiv(FSub(now, overbought),
                                         FSub(FInt(100), overbought)))
                ELSE Hold
        IN  /\ signal = expected
            /\ (FLess(FInt(0), oversold) /\ FLess(oversold, overbought)
                    /\ FLess(overbought, FInt(100)))
                   => InUnitInterval(signal.confidence)

\* C27 witness: the RSI strategy answered sell on a window without a losing
\* change, past its warm-up.
C27_Witness ==
    /\ pc = "loop"
    /\ Strategy.kind = "rsi"
    /\ i >= 1
    /\ i - 1 >= Strategy.parameters.period + 1
    /\ SimpleRSI(bars, Strategy.parameters.period, i - 1) = FInt(100)
    /\ signal.action = "sell"
    /\ FLess(FInt(0), signal.confidence)

\* Sum of value over the trades of a log with the given action.
RECURSIVE SumValues(_, _)
SumValues(ts, action) ==
    IF ts = <<>> THEN 0
    ELSE LET t == ts[Len(ts)]
         IN  SumValues(SubSeq(ts, 1, Len(ts) - 1), action)
                 + (IF t.action = action THEN t.value ELSE 0)

\* C28: at every moment of a run cash equals initialCapital minus the values
\* of the buys logged so far plus the values of the sells logged so far; the
\* result's final_capital is that amount over the returned log, and
\* total_return is the sells' values minus the buys' values.
C28_CashConservation ==
    (pc \in {"loop", "done"}) =>
        /\ capital = config.initialCapital - SumValues(trades, "buy")
                         + SumValues(trades, "sell")
        /\ Done =>
               /\ result.final_capital =
                      result.initial_capital - SumValues(result.trades, "buy")
                          + SumValues(result.trades, "sell")
               /\ result.total_return =
                      SumValues(result.trades, "sell")
                          - SumValues(result.trades, "buy")

\* C28 witness: a run with a commission has returned a log of two buys and
\* two sells.
C28_Witness ==
    /\ Done
    /\ config.commission = 1
    /\ Len(result.trades) = 4
    /\ result.total_return # 0

CashBefore(ts, k, initialCapital) ==
    LET earlier == SelectSeq(ts, LAMBDA t : t.timestamp < k)
    IN  initialCapital - SumValues(earlier, "buy") + SumValues(earlier, "sell")

PositionBefore(ts, k) ==
    LET earlier == SelectSeq(ts, LAMBDA t : t.timestamp < k)
    IN  NetPosition(earlier)

\* The number of trades of a log made at bar number k.
TradesAt(ts, k) == Len(SelectSeq(ts, LAMBDA t : t.timestamp = k))

\* C30: each equity point is cash + position * close with the cash and
\* position held before that bar's own trade, so the first point is
\* initial_capital with drawdown 0; final_capital is the last point's equity
\* less the commissions of the trades made at the last bar, hence equal to it
\* when commission = 0.
C30_EquityBeforeTrade ==
    (pc \in {"loop", "done"}) =>
        /\ \A k \in 1..Len(equityCurve) :
               equityCurve[k].equity =
                   CashBefore(trades, k, config.initialCapital)
                       + PositionBefore(trades, k) * bars[k].c
        /\ Len(equityCurve) >= 1 =>
               /\ equityCurve[1].equity = config.initialCapital
               /\ equityCurve[1].drawdown = FInt(0)
        /\ Done =>
               LET last == result.equity_curve[Len(result.equity_curve)]
               IN  /\ result.final_capital =
                          last.equity
                              - config.commission * TradesAt(result.trades, Len(bars))
                   /\ config.commission = 0 => result.final_capital = last.equity

\* C30 on the configurations the engine is meant for: the same statement for
\* runs with initialCapital > 0.
C30_ForPositiveCapital ==
    (config # NoConfig /\ config.initialCapital > 0) => C30_EquityBeforeTrade

====
